---- MODULE Spec2Model ----
(***************************************************************************)
(* A model of dl4m.py: the report generator that turns the parsed          *)
(* bibliography (a list of entries, each a mapping from field names to     *)
(* strings) into authors.md, <field>s.md, the README.md table and the      *)
(* per-year histogram.                                                     *)
(*                                                                         *)
(* A str is modelled by the sequence of its characters: Len, \o and SubSeq *)
(* are Python's len, + and slicing.  An entry is a function whose DOMAIN   *)
(* is the set of fields the entry has, so `"title" in entry` is            *)
(* "title" \in DOMAIN entry.                                               *)
(***************************************************************************)
EXTENDS Integers, Sequences, FiniteSets, TLC

VARIABLES bib, files, pc, err, loc, sink, before, log, runs, call, ret

vars == <<bib, files, pc, err, loc, sink, before, log, runs, call, ret>>

(***************************************************************************)
(* Bounds of the model.                                                    *)
(***************************************************************************)
MaxRecords == 3
MaxLines == 2
MaxRuns == 2

(***************************************************************************)
(* Python's str operations.  A str is the tuple of its characters; T gives *)
(* the str a literal of the source denotes.                                *)
(***************************************************************************)
T(literal) == [i \in 1..Len(literal) |-> SubSeq(literal, i, i)]

Min(a, b) == IF a <= b THEN a ELSE b

\* s[:n]
Prefix(s, n) == SubSeq(s, 1, Min(n, Len(s)))

\* s[n:]
Suffix(s, n) == SubSeq(s, n + 1, Len(s))

\* s[i - 1 : i - 1 + len(sub)] == sub, for a non-empty sub (i is 1-based)
MatchAt(s, sub, i) ==
    /\ i + Len(sub) - 1 <= Len(s)
    /\ s[i] = sub[1]
    /\ SubSeq(s, i, i + Len(sub) - 1) = sub

\* sub in s
Contains(s, sub) == \E i \in 1..(Len(s) - Len(sub) + 1) : MatchAt(s, sub, i)

\* s.find(sub) + 1: the 1-based position of the leftmost occurrence, 0 if none
Find(s, sub) ==
    LET at == {i \in 1..(Len(s) - Len(sub) + 1) : MatchAt(s, sub, i)}
    IN IF at = {} THEN 0 ELSE CHOOSE i \in at : \A j \in at : i <= j

\* s.split(sep), sep non-empty: cut at the leftmost occurrence (at j), then
\* go on in what follows it
RECURSIVE Split(_, _)
SplitAt(s, sep, j) ==
    IF j = 0 THEN <<s>>
    ELSE <<SubSeq(s, 1, j - 1)>> \o Split(Suffix(s, j - 1 + Len(sep)), sep)

Split(s, sep) == SplitAt(s, sep, Find(s, sep))

NewLine == T("\n")

\* the text lines a file iterator yields: each ends with its "\n" (at j),
\* except possibly the last one
RECURSIVE SplitLines(_)
SplitLinesAt(s, j) ==
    IF s = <<>> THEN <<>>
    ELSE IF j = 0 THEN <<s>>
    ELSE <<SubSeq(s, 1, j)>> \o SplitLines(Suffix(s, j))

SplitLines(s) == SplitLinesAt(s, Find(s, NewLine))

\* ord(c), for the characters bibliography values are written with
Digits == T("0123456789")
Upper == T("ABCDEFGHIJKLMNOPQRSTUVWXYZ")
Lower == T("abcdefghijklmnopqrstuvwxyz")
IndexIn(c, alphabet) == CHOOSE i \in 1..Len(alphabet) : alphabet[i] = c
Ord(c) ==
    IF \E i \in 1..Len(Digits) : Digits[i] = c THEN 47 + IndexIn(c, Digits)
    ELSE IF \E i \in 1..Len(Upper) : Upper[i] = c THEN 64 + IndexIn(c, Upper)
    ELSE IF \E i \in 1..Len(Lower) : Lower[i] = c THEN 96 + IndexIn(c, Lower)
    ELSE CASE c = "\n" -> 10
           [] c = " " -> 32
           [] c = "&" -> 38
           [] c = "-" -> 45
           [] c = "." -> 46
           [] c = "/" -> 47
           [] c = ":" -> 58
           [] c = "|" -> 124

\* a < b on str: compare code points at the first difference, a proper
\* prefix is smaller
RECURSIVE StrLess(_, _)
StrLess(a, b) ==
    IF b = <<>> THEN FALSE
    ELSE IF a = <<>> THEN TRUE
    ELSE IF Head(a) = Head(b) THEN StrLess(Tail(a), Tail(b))
    ELSE Ord(Head(a)) < Ord(Head(b))

\* str(n) for n >= 0
RECURSIVE str(_)
str(n) ==
    LET d == <<Digits[(n % 10) + 1]>> IN
    IF n < 10 THEN d ELSE str(n \div 10) \o d

\* int(s) for a string of decimal digits
RECURSIVE int(_)
int(s) ==
    LET d == IndexIn(s[Len(s)], Digits) - 1
    IN IF Len(s) = 1 THEN d ELSE 10 * int(SubSeq(s, 1, Len(s) - 1)) + d

Range(s) == {s[i] : i \in DOMAIN s}

\* sorted(xs) of a list of str: insertion sort under StrLess
RECURSIVE Insert(_, _)
Insert(sorted, x) ==
    IF sorted = <<>> THEN <<x>>
    ELSE IF StrLess(x, Head(sorted)) THEN <<x>> \o sorted
    ELSE <<Head(sorted)>> \o Insert(Tail(sorted), x)

RECURSIVE SortedList(_)
SortedList(xs) ==
    IF xs = <<>> THEN <<>> ELSE Insert(SortedList(Tail(xs)), Head(xs))

\* set(xs) as a list in some iteration order
RECURSIVE SetList(_)
SetList(S) ==
    IF S = {} THEN <<>>
    ELSE LET x == CHOOSE y \in S : TRUE IN <<x>> \o SetList(S \ {x})

\* sorted(set(xs))
SortedSet(xs) == SortedList(SetList(Range(xs)))

\* the file system after open(name, "w") ... write(content)
WriteFile(fs, name, content) ==
    [f \in (DOMAIN fs) \cup {name} |-> IF f = name THEN content ELSE fs[f]]

RECURSIVE Concat(_)
Concat(ss) == IF ss = <<>> THEN <<>> ELSE Head(ss) \o Concat(Tail(ss))

(***************************************************************************)
(* The functions of dl4m.py.  A call returns a record: the exception it    *)
(* raised ("none" when it returned), its return value, the file system it  *)
(* leaves and the files it opened for writing, in order.                   *)
(***************************************************************************)
Returned(value, fs, written) ==
    [err |-> "none", ret |-> value, files |-> fs, log |-> written]

Raised(exception, fs, written) ==
    [err |-> exception, ret |-> 0, files |-> fs, log |-> written]

\* validate_field: the list `fields`
fields_whitelist ==
    <<"task", "dataset", "architecture", "author", "dataaugmentation",
      "link", "title", "year", "journal", "ENTRYTYPE">>

\* the names get_field and validate_field are called with
FieldNames == Range(fields_whitelist) \cup {"entryType", "code", "tasks", "Task", ""}

\* validate_field with "journal" left out of the list
validate_field_no_journal(field_name) ==
    IF field_name \in (Range(fields_whitelist) \ {"journal"})
    THEN "none" ELSE "AssertionError"

\* validate_field: the exception it raises, "none" when the assert passes
validate_field(field_name) ==
    IF field_name \in Range(fields_whitelist) THEN "none" ELSE "AssertionError"

\* get_field: the separator of the values of a field
FieldSeparator == T(" & ")

\* get_field: the loop over bib that fills `fields`
RECURSIVE get_field_values(_, _)
get_field_values(b, field_name) ==
    IF b = <<>> THEN <<>>
    ELSE (IF field_name \in DOMAIN Head(b)
          THEN Split(Head(b)[field_name], FieldSeparator)
          ELSE <<>>) \o get_field_values(Tail(b), field_name)

\* get_field: nb_article_missing
RECURSIVE get_field_missing(_, _)
get_field_missing(b, field_name) ==
    IF b = <<>> THEN 0
    ELSE (IF field_name \in DOMAIN Head(b) THEN 0 ELSE 1)
         + get_field_missing(Tail(b), field_name)

\* the "- value\n" lines written for a list of values
BulletMark == T("- ")

RECURSIVE Bullets(_)
Bullets(values) ==
    IF values = <<>> THEN <<>>
    ELSE BulletMark \o Head(values) \o NewLine \o Bullets(Tail(values))

\* get_field listing sorted(fields), without set
get_field_listed_no_set(fields) == SortedList(fields)

\* get_field: sorted(set(fields)), the values the listing gets
get_field_listed(fields) == SortedSet(fields)

\* get_field: the two literals around field_name in the title line, and the
\* cross-reference line
ListTitle == T("# List of ")
ListTitleEnd == T("s\n\n")
AcronymsLine ==
    T("Please refer to the list of useful acronyms used in deep ")
    \o T("learning and music: [acronyms.md](acronyms.md).\n\n")

\* the str a field name is
NameText == [f \in FieldNames |-> T(f)]

\* get_field: what is written to <field_name>s.md
get_field_document(field_name, fields) ==
    ListTitle \o NameText[field_name] \o ListTitleEnd
    \o AcronymsLine
    \o Bullets(get_field_listed(fields))

\* get_field, once the loop has filled `fields`
get_field_report(field_name, fields, fs) ==
    Returned(Cardinality(Range(fields)),
             WriteFile(fs, field_name \o "s.md", get_field_document(field_name, fields)),
             <<field_name \o "s.md">>)

get_field(b, field_name, fs) ==
    IF validate_field(field_name) # "none"
    THEN Raised(validate_field(field_name), fs, <<>>)
    ELSE get_field_report(field_name, get_field_values(b, field_name), fs)

\* get_authors: the separator of the authors of an entry
AuthorSeparator == T(" and ")

\* get_authors: the loop over bib that fills `authors`; entry['author'] of
\* an entry without author raises KeyError
HasAll(b, field_name) == \A i \in DOMAIN b : field_name \in DOMAIN b[i]

\* get_authors cutting at " & ", the separator of the other fields
RECURSIVE get_authors_split_amp(_)
get_authors_split_amp(b) ==
    IF b = <<>> THEN <<>>
    ELSE Split(Head(b)["author"], FieldSeparator) \o get_authors_split_amp(Tail(b))

RECURSIVE get_authors_values(_)
get_authors_values(b) ==
    IF b = <<>> THEN <<>>
    ELSE Split(Head(b)["author"], AuthorSeparator) \o get_authors_values(Tail(b))

AuthorsTitle == T("# List of authors\n\n")

\* get_authors, once the loop has filled `authors` and it is sorted
get_authors_report(authors, fs) ==
    Returned(Len(authors),
             WriteFile(fs, "authors.md", AuthorsTitle \o Bullets(authors)),
             <<"authors.md">>)

get_authors(b, fs) ==
    IF ~HasAll(b, "author") THEN Raised("KeyError", fs, <<>>)
    ELSE get_authors_report(SortedSet(get_authors_values(b)), fs)

get_nb_articles(b) == Len(b)

\* generate_list_articles: its literals
No == T("No")
github == T("github")
NoCell == T("No ")
GitHubCell == T("[GitHub")
WebsiteCell == T("[Website")
LinkOpen == T("](")
CodeClose == T(") ")
RowLinked == T("| [")
LinkClose == T(") | ")
RowPlain == T("| ")
TitleClose == T(" | ")
RowEnd == T("|\n")

\* the code cell with the "github" test made before the "No" test
code_cell_github_first(entry) ==
    IF "code" \in DOMAIN entry
    THEN IF Contains(entry["code"], github)
         THEN GitHubCell \o LinkOpen \o entry["code"] \o CodeClose
         ELSE IF Contains(entry["code"], No) THEN NoCell
         ELSE WebsiteCell \o LinkOpen \o entry["code"] \o CodeClose
    ELSE NoCell

\* generate_list_articles: the code-availability cell of one entry
code_cell(entry) ==
    IF "code" \in DOMAIN entry
    THEN IF Contains(entry["code"], No) THEN NoCell
         ELSE (IF Contains(entry["code"], github) THEN GitHubCell ELSE WebsiteCell)
              \o LinkOpen \o entry["code"] \o CodeClose
    ELSE NoCell

\* generate_list_articles: what one entry adds to `articles`
article_row(entry) ==
    IF "title" \in DOMAIN entry
    THEN (IF "link" \in DOMAIN entry
          THEN RowLinked \o entry["title"] \o LinkOpen \o entry["link"] \o LinkClose
          ELSE RowPlain \o entry["title"] \o TitleClose)
         \o code_cell(entry) \o RowEnd
    ELSE <<>>

RECURSIVE generate_list_articles(_)
generate_list_articles(b) ==
    IF b = <<>> THEN <<>>
    ELSE article_row(Head(b)) \o generate_list_articles(Tail(b))

\* articles_per_year: the list `years`
years_of(b) == [i \in DOMAIN b |-> int(b[i]["year"])]

MinOf(S) == CHOOSE x \in S : \A y \in S : x <= y
MaxOf(S) == CHOOSE x \in S : \A y \in S : y <= x

\* np.arange(start, stop, 1.0) for whole start and stop
arange(start, stop) == [i \in 1..(stop - start) |-> start + i - 1]

\* year_bins ending at max(years) + 1.0
year_bins_short(years) == arange(MinOf(Range(years)), MaxOf(Range(years)) + 1)

\* articles_per_year: year_bins
year_bins(years) == arange(MinOf(Range(years)), MaxOf(Range(years)) + 2)

\* the counts plt.hist computes: bin i holds bins[i] <= x < bins[i + 1], and
\* the last bin holds its right edge too
hist(xs, bins) ==
    [i \in 1..(Len(bins) - 1) |->
        Cardinality({j \in DOMAIN xs :
            /\ bins[i] <= xs[j]
            /\ IF i = Len(bins) - 1 THEN xs[j] <= bins[i + 1]
                                    ELSE xs[j] < bins[i + 1]})]

\* the content of the saved figure, left abstract
Figure == T("png")

NoPlot == [bins |-> <<>>, counts |-> <<>>]

\* articles_per_year, once `years` and year_bins are computed: what plt.hist
\* is handed and computes, and the figure saved
articles_per_year_plot(years, bins, fs) ==
    Returned([bins |-> bins, counts |-> hist(years, bins)],
             WriteFile(fs, "fig/articles_per_year.png", Figure),
             <<"fig/articles_per_year.png">>)

articles_per_year(b, fs) ==
    IF ~HasAll(b, "year") THEN Raised("KeyError", fs, <<>>)
    ELSE IF b = <<>> THEN Raised("ValueError", fs, <<>>)
    ELSE articles_per_year_plot(years_of(b), year_bins(years_of(b)), fs)

(***************************************************************************)
(* generate_summary_table.  loc holds its local variables: the five        *)
(* counts as str, articles, readme, pasted_articles, and the lines of      *)
(* README.md with the position i of the line the loop is at.               *)
(***************************************************************************)
CountAnchors == <<"papers referenced", "unique researchers",
                  "tasks investigated", "datasets used", "architecture used">>

\* the phrases as str
AnchorText == [k \in DOMAIN CountAnchors |-> T(CountAnchors[k])]

\* the first test of the loop body, up to the evaluation of line[2]
starts_like_row(line) == Contains(Prefix(line, 2), RowPlain)

\* the elif chain with the "datasets used" test before "tasks investigated"
elif_branch_reordered(line) ==
    IF Contains(line, AnchorText[1]) THEN CountAnchors[1]
    ELSE IF Contains(line, AnchorText[2]) THEN CountAnchors[2]
    ELSE IF Contains(line, AnchorText[4]) THEN CountAnchors[4]
    ELSE IF Contains(line, AnchorText[3]) THEN CountAnchors[3]
    ELSE IF Contains(line, AnchorText[5]) THEN CountAnchors[5]
    ELSE "copy"

\* the elif chain: the first phrase, in the order of the tests, the line holds
elif_branch(line) ==
    IF Contains(line, AnchorText[1]) THEN CountAnchors[1]
    ELSE IF Contains(line, AnchorText[2]) THEN CountAnchors[2]
    ELSE IF Contains(line, AnchorText[3]) THEN CountAnchors[3]
    ELSE IF Contains(line, AnchorText[4]) THEN CountAnchors[4]
    ELSE IF Contains(line, AnchorText[5]) THEN CountAnchors[5]
    ELSE "copy"

\* the chain without the test of line[2]
line_branch_any_pipe(line) ==
    IF starts_like_row(line) THEN "table" ELSE elif_branch(line)

\* the branch of the if/elif chain a line takes: "IndexError" when line[2]
\* does not exist, "table", the anchor phrase of a count line, or "copy"
line_branch(line) ==
    IF starts_like_row(line) /\ Len(line) < 3 THEN "IndexError"
    ELSE IF starts_like_row(line) /\ line[3] # " " THEN "table"
    ELSE elif_branch(line)

\* the literals of the lines the elif branches add to readme
PapersLine ==
    T(" papers referenced. ") \o T("See the details in [dl4m.bib](dl4m.bib).\n")
ResearchersLine ==
    T(" unique researchers. ") \o T("See the list of [authors](authors.md).\n")
TasksLine ==
    T(" tasks investigated. ") \o T("See the list of [tasks](tasks.md).\n")
DatasetsLine ==
    T(" datasets used. ") \o T("See the list of [datasets](datasets.md).\n")
ArchitecturesLine ==
    T(" architectures used. ")
    \o T("See the list of [architectures](architectures.md).\n")

\* the line each elif branch adds to readme
count_line(branch, l) ==
    CASE branch = "papers referenced" -> BulletMark \o l.nb_articles \o PapersLine
      [] branch = "unique researchers" -> BulletMark \o l.nb_authors \o ResearchersLine
      [] branch = "tasks investigated" -> BulletMark \o l.nb_tasks \o TasksLine
      [] branch = "datasets used" -> BulletMark \o l.nb_datasets \o DatasetsLine
      [] branch = "architecture used" -> BulletMark \o l.nb_archi \o ArchitecturesLine

NoLocals ==
    [nb_articles |-> <<>>, nb_authors |-> <<>>, nb_tasks |-> <<>>,
     nb_datasets |-> <<>>, nb_archi |-> <<>>, articles |-> <<>>, readme |-> <<>>,
     pasted_articles |-> FALSE,
     lines |-> <<>>, i |-> 1]

NoCall == [fn |-> "none", arg |-> "none"]

\* generate_summary_table up to the loop: the five counts, the articles,
\* and README.md opened for reading
summary_locals(b, a, t, d, r, fs) ==
    [nb_articles |-> str(get_nb_articles(b)),
     nb_authors |-> str(a.ret),
     nb_tasks |-> str(t.ret),
     nb_datasets |-> str(d.ret),
     nb_archi |-> str(r.ret),
     articles |-> generate_list_articles(b),
     readme |-> <<>>,
     pasted_articles |-> FALSE,
     lines |-> SplitLines(fs["README.md"]),
     i |-> 1]

\* the calls of get_authors and get_field, each on the files the one before
\* left; a is what get_authors returned, t, d and r what get_field did
FragmentsComputed(a, t, d, r) ==
    IF a.err # "none"
    THEN /\ err' = a.err
         /\ UNCHANGED <<pc, loc, files, log>>
    ELSE /\ loc' = summary_locals(bib, a, t, d, r, r.files)
         /\ files' = r.files
         /\ log' = log \o a.log \o t.log \o d.log \o r.log
         /\ pc' = "loop"
         /\ UNCHANGED err

ArchitecturesCounted(a, t, d) ==
    FragmentsComputed(a, t, d, get_field(bib, "architecture", d.files))

DatasetsCounted(a, t) ==
    ArchitecturesCounted(a, t, get_field(bib, "dataset", t.files))

AuthorsCounted(a) == DatasetsCounted(a, get_field(bib, "task", a.files))

ComputeFragments ==
    /\ pc = "start" /\ err = "none"
    /\ AuthorsCounted(get_authors(bib, files))
    /\ UNCHANGED <<bib, sink, before, runs, call, ret>>

\* the loop body without pasted_articles
loop_body_unflagged(line, branch) ==
    /\ IF branch = "IndexError"
       THEN err' = "IndexError" /\ UNCHANGED loc
       ELSE /\ loc' = [loc EXCEPT
                   !.i = @ + 1,
                   !.readme = @ \o (IF branch = "table" THEN loc.articles
                                    ELSE IF branch = "copy" THEN line
                                    ELSE count_line(branch, loc))]
            /\ UNCHANGED err
    /\ UNCHANGED <<files, log>>

\* the loop body writing README.md as it goes
loop_body_unbuffered(line, branch) ==
    IF branch = "IndexError"
    THEN err' = "IndexError" /\ UNCHANGED <<loc, files, log>>
    ELSE /\ loc' = [loc EXCEPT
                !.i = @ + 1,
                !.readme = @ \o (IF branch = "table"
                                 THEN (IF loc.pasted_articles THEN <<>>
                                       ELSE loc.articles)
                                 ELSE IF branch = "copy" THEN line
                                 ELSE count_line(branch, loc)),
                !.pasted_articles = @ \/ branch = "table"]
         /\ files' = WriteFile(files, "README.md", loc'.readme)
         /\ log' = Append(log, "README.md")
         /\ UNCHANGED err

\* the body of `for line in filep`, branch being the branch the line takes
loop_body(line, branch) ==
    /\ IF branch = "IndexError"
       THEN err' = "IndexError" /\ UNCHANGED loc
       ELSE /\ loc' = [loc EXCEPT
                   !.i = @ + 1,
                   !.readme = @ \o (IF branch = "table"
                                    THEN (IF loc.pasted_articles THEN <<>>
                                          ELSE loc.articles)
                                    ELSE IF branch = "copy" THEN line
                                    ELSE count_line(branch, loc)),
                   !.pasted_articles = @ \/ branch = "table"]
            /\ UNCHANGED err
    /\ UNCHANGED <<files, log>>

\* one iteration of `for line in filep`
ProcessLine ==
    /\ pc = "loop" /\ err = "none" /\ loc.i <= Len(loc.lines)
    /\ loop_body(loc.lines[loc.i], line_branch(loc.lines[loc.i]))
    /\ UNCHANGED <<bib, pc, sink, before, runs, call, ret>>

\* the end of the loop: README.md is opened for writing and readme written
WriteReadme ==
    /\ pc = "loop" /\ err = "none" /\ loc.i > Len(loc.lines)
    /\ files' = WriteFile(files, "README.md", loc.readme)
    /\ log' = Append(log, "README.md")
    /\ pc' = "written"
    /\ UNCHANGED <<bib, err, loc, sink, before, runs, call, ret>>

\* main: articles_per_year(bib), after generate_summary_table returned
Plotted(r) ==
    IF r.err # "none"
    THEN err' = r.err /\ UNCHANGED <<pc, sink, files, log>>
    ELSE /\ sink' = r.ret
         /\ files' = r.files
         /\ log' = log \o r.log
         /\ pc' = "done"
         /\ UNCHANGED err

PlotYears ==
    /\ pc = "written" /\ err = "none"
    /\ Plotted(articles_per_year(bib, files))
    /\ UNCHANGED <<bib, loc, before, runs, call, ret>>

(***************************************************************************)
(* The inputs: bibliography entries as bibtexparser hands them over, and   *)
(* README.md documents built from lines of every kind the loop tells       *)
(* apart.                                                                  *)
(***************************************************************************)
R1 == [ENTRYTYPE |-> T("article"), title |-> T("A"), link |-> T("u"), code |-> T("No"),
       author |-> T("Al and Bo and Al"), year |-> T("2015"), task |-> T("a & b")]
R2 == [ENTRYTYPE |-> T("article"), title |-> T("B"), code |-> T("github.com/x"),
       author |-> T("Bo"), year |-> T("2015"), task |-> T("B & a"), dataset |-> T("d"),
       architecture |-> T("CNN & RNN")]
R3 == [ENTRYTYPE |-> T("misc"), title |-> T("C"), author |-> T("al and Al"),
       year |-> T("2017"), task |-> T("a  & B & a"), journal |-> T("J")]
R4 == [ENTRYTYPE |-> T("misc"), link |-> T("v"), code |-> T("w.org"), author |-> T("Cy"),
       year |-> T("2016")]
R5 == [ENTRYTYPE |-> T("article"), title |-> T("D"), link |-> T("v"), code |-> T("w.org"),
       author |-> T("Al"), year |-> T("2018"), dataaugmentation |-> T("No")]
R6 == [ENTRYTYPE |-> T("article"), title |-> T("E"), code |-> T("github.com/Nova"),
       author |-> T("Bo and Cy"), year |-> T("2017"), task |-> T(" & ")]
R7 == [ENTRYTYPE |-> T("misc"), title |-> T("F"), task |-> T("b & a & b")]

Records == {R1, R2, R3, R4, R5, R6, R7}

Collections(pool, n) == UNION {[1..k -> pool] : k \in 0..n}

\* the bibliographies main is run on
MainBibs == {<<>>, <<R1, R2>>, <<R7>>, <<R3, R4, R5>>}

Lines == {T("# DL4M\n"),
          T("\n"),
          T("| Paper | Code |\n"),
          T("|  x |\n"),
          T("| \n"),
          T("| papers referenced |\n"),
          T("- 10 papers referenced. See details.\n"),
          T("- 3 unique researchers.\n"),
          T("- 2 tasks investigated.\n"),
          T("- 1 datasets used.\n"),
          T("- 1 architecture used.\n"),
          T("datasets used in tasks investigated\n")}

\* a last line without its "\n", or none
LastLines == {<<>>, T("end"), T("| ")}

Documents ==
    {Concat(body) \o last : body \in Collections(Lines, MaxLines), last \in LastLines}

(***************************************************************************)
(* Spec: main, run on a bibliography and a README.md, and run again.       *)
(***************************************************************************)
Init ==
    /\ bib \in MainBibs
    /\ \E doc \in Documents :
          /\ files = [f \in {"README.md"} |-> doc]
          /\ before = doc
    /\ pc = "start"
    /\ err = "none"
    /\ loc = NoLocals
    /\ sink = NoPlot
    /\ log = <<>>
    /\ runs = 1
    /\ call = NoCall
    /\ ret = 0

\* main is started again on the README.md it wrote, after the bibliography
\* gained an entry
Rerun ==
    /\ pc = "done" \/ (pc = "written" /\ err # "none")
    /\ runs < MaxRuns
    /\ runs' = runs + 1
    /\ bib' = Append(bib, R5)
    /\ before' = files["README.md"]
    /\ pc' = "start"
    /\ err' = "none"
    /\ loc' = NoLocals
    /\ log' = <<>>
    /\ UNCHANGED <<files, sink, call, ret>>

Next ==
    \/ ComputeFragments
    \/ ProcessLine
    \/ WriteReadme
    \/ PlotYears
    \/ Rerun

Spec == Init /\ [][Next]_vars

(***************************************************************************)
(* SpecLib: one call of a function of the module on a bibliography.        *)
(***************************************************************************)
InitLib ==
    /\ bib \in Collections(Records, MaxRecords)
    /\ files = [f \in {"README.md"} |-> <<>>]
    /\ before = <<>>
    /\ pc = "idle"
    /\ err = "none"
    /\ loc = NoLocals
    /\ sink = NoPlot
    /\ log = <<>>
    /\ runs = 1
    /\ call = NoCall
    /\ ret = 0

Return(fn, arg, r) ==
    /\ pc = "idle"
    /\ pc' = "returned"
    /\ call' = [fn |-> fn, arg |-> arg]
    /\ err' = r.err
    /\ ret' = r.ret
    /\ files' = r.files
    /\ log' = r.log
    /\ UNCHANGED <<bib, loc, sink, before, runs>>

CallValidateField ==
    \E f \in FieldNames :
        Return("validate_field", f,
               IF validate_field(f) = "none" THEN Returned(0, files, <<>>)
               ELSE Raised(validate_field(f), files, <<>>))

CallGetField ==
    \E f \in FieldNames : Return("get_field", f, get_field(bib, f, files))

CallGetAuthors == Return("get_authors", "none", get_authors(bib, files))

CallGenerateListArticles ==
    Return("generate_list_articles", "none",
           Returned(generate_list_articles(bib), files, <<>>))

CallArticlesPerYear ==
    Return("articles_per_year", "none", articles_per_year(bib, files))

NextLib ==
    \/ CallValidateField
    \/ CallGetField
    \/ CallGetAuthors
    \/ CallGenerateListArticles
    \/ CallArticlesPerYear

SpecLib == InitLib /\ [][NextLib]_vars

(***************************************************************************)
(* What the claims speak of, stated apart from the functions above.        *)
(***************************************************************************)
Pipe == T("| ")

\* a table anchor: the first two characters are "| " and the third is not a
\* space
IsTableAnchor(line) ==
    /\ Len(line) >= 3
    /\ SubSeq(line, 1, 2) = Pipe
    /\ line[3] # " "

\* the count anchors a line holds
PhrasesIn(line) == {k \in DOMAIN CountAnchors : Contains(line, AnchorText[k])}

\* a line matching none of the six anchors
IsPlainLine(line) == ~IsTableAnchor(line) /\ PhrasesIn(line) = {}

\* the run has rewritten README.md
Rewritten == pc \in {"written", "done"}

\* everything a run can put in the place of an anchor line
Generated(l) ==
    {<<>>, l.articles} \cup {count_line(CountAnchors[k], l) : k \in DOMAIN CountAnchors}

StartsWith(s, p) == Len(p) <= Len(s) /\ SubSeq(s, 1, Len(p)) = p

\* out is the lines ls, each anchor line replaced by something generated and
\* every other line left as it is, in place
RECURSIVE IsRewriteOf(_, _, _)
IsRewriteOf(out, ls, gen) ==
    IF ls = <<>> THEN out = <<>>
    ELSE IF IsPlainLine(Head(ls))
    THEN /\ StartsWith(out, Head(ls))
         /\ IsRewriteOf(Suffix(out, Len(Head(ls))), Tail(ls), gen)
    ELSE \E g \in gen :
            /\ StartsWith(out, g)
            /\ IsRewriteOf(Suffix(out, Len(g)), Tail(ls), gen)

\* C1: once a run has rewritten README.md, the document is its input with
\* every line that matches none of the six anchors byte-identical and in
\* place, only anchor lines giving way to generated content: no such line
\* is dropped, altered, duplicated or moved.
C1_PlainLinesKept ==
    Rewritten => IsRewriteOf(files["README.md"], SplitLines(before), Generated(loc))

\* C1 witness: a rewritten document whose input had two different plain
\* lines around an anchor line
C1_Witness ==
    /\ Rewritten
    /\ Len(loc.lines) = 3
    /\ IsPlainLine(loc.lines[1])
    /\ ~IsPlainLine(loc.lines[2])
    /\ IsPlainLine(loc.lines[3])
    /\ loc.lines[1] # loc.lines[3]
    /\ files["README.md"] # before

\* how many of the lines ls are the line l
Occurrences(ls, l) == Cardinality({j \in DOMAIN ls : ls[j] = l})

\* C2, as claimed: in a rewritten document the generated line of a count
\* anchor never appears more than once, whatever the input (at most one
\* substitution per anchor type).
C2_OneSubstitutionPerAnchor ==
    Rewritten =>
        \A k \in DOMAIN CountAnchors :
            Occurrences(SplitLines(files["README.md"]),
                        count_line(CountAnchors[k], loc)) <= 1

\* the anchor a line is, by the tests in their order: the table anchor
\* first, then the first of the five phrases the line holds
AnchorOf(line) ==
    IF IsTableAnchor(line) THEN "table"
    ELSE IF PhrasesIn(line) = {} THEN "copy"
    ELSE CountAnchors[CHOOSE k \in PhrasesIn(line) : \A j \in PhrasesIn(line) : k <= j]

\* what line j of ls gives way to
Substitute(ls, j, l) ==
    IF AnchorOf(ls[j]) = "copy" THEN ls[j]
    ELSE IF AnchorOf(ls[j]) = "table"
    THEN (IF \E h \in 1..(j - 1) : IsTableAnchor(ls[h]) THEN <<>> ELSE l.articles)
    ELSE count_line(AnchorOf(ls[j]), l)

\* C2, amended: the articles are put in once, at the first table anchor, and
\* every line that is a count anchor is replaced by the generated line of
\* that anchor -- once per matching line, so n matching lines give n
\* generated lines.
C2_SubstitutionPerMatchingLine ==
    Rewritten =>
        files["README.md"] =
            Concat([j \in DOMAIN SplitLines(before) |->
                        Substitute(SplitLines(before), j, loc)])

\* C2 witness: a rewritten document whose input had two lines matching the
\* same count anchor, and two table anchors
C2_Witness ==
    /\ Rewritten
    /\ \E i, j \in DOMAIN loc.lines :
          /\ i < j
          /\ AnchorOf(loc.lines[i]) = "papers referenced"
          /\ AnchorOf(loc.lines[j]) = "papers referenced"
    /\ Occurrences(SplitLines(files["README.md"]),
                   count_line("papers referenced", loc)) = 2

\* C3: in the loop a line is treated as the table anchor exactly when its
\* first two characters are "| " and its third is not a space, whatever
\* phrase it holds; the first such line adds the whole articles to readme,
\* every later one adds nothing, and pasted_articles, false when the loop
\* starts, becomes true there and never goes back.
C3_TableInsertedOnce ==
    /\ [](pc = "loop" /\ loc.i = 1 => ~loc.pasted_articles)
    /\ [][(pc = "loop" /\ pc' = "loop" /\ loc'.i = loc.i + 1) =>
            /\ loc.pasted_articles => loc'.pasted_articles
            /\ IsTableAnchor(loc.lines[loc.i]) =>
                  /\ loc'.pasted_articles
                  /\ loc'.readme = loc.readme \o
                        (IF loc.pasted_articles THEN <<>> ELSE loc.articles)
            /\ ~IsTableAnchor(loc.lines[loc.i]) =>
                  /\ loc'.pasted_articles = loc.pasted_articles
                  /\ loc'.readme # loc.readme]_vars

\* C3 witness: the loop is past two table anchors, the second of which
\* holds a count phrase, and readme holds the (non-empty) articles once
C3_Witness ==
    /\ pc = "loop"
    /\ loc.i = 3
    /\ IsTableAnchor(loc.lines[1])
    /\ IsTableAnchor(loc.lines[2])
    /\ PhrasesIn(loc.lines[2]) # {}
    /\ loc.articles # <<>>
    /\ loc.readme = loc.articles
    /\ loc.pasted_articles

\* C4: README.md is opened for writing at most once in a run, and only when
\* the loop is over; until then, and so in a run that fails while the
\* fragments are computed or a line is processed, README.md holds what it
\* held when the run started.
C4_ReadmeWrittenOnceAtEnd ==
    /\ Occurrences(log, "README.md") <= 1
    /\ "README.md" \in Range(log) => Rewritten
    /\ pc \in {"start", "loop"} => files["README.md"] = before

\* C4 witness: a run that failed on a line after readme had already taken
\* generated content in
C4_Witness ==
    /\ pc = "loop"
    /\ err = "IndexError"
    /\ loc.pasted_articles
    /\ loc.articles # <<>>
    /\ ~StartsWith(before, loc.readme)

\* C10, as claimed: the generated count lines hold the phrase that triggered
\* them, so a document that had a line taking the branch of a count anchor
\* has, once rewritten, a line that takes that branch again.
C10_CountLinesStayAnchors ==
    Rewritten =>
        \A k \in DOMAIN CountAnchors :
            (\E j \in DOMAIN loc.lines : line_branch(loc.lines[j]) = CountAnchors[k])
            => \E line \in Range(SplitLines(files["README.md"])) :
                   line_branch(line) = CountAnchors[k]

(***************************************************************************)
(* The claims about the functions called on their own.                     *)
(***************************************************************************)
Called(fn) == pc = "returned" /\ call.fn = fn

Has(entry, field) == field \in DOMAIN entry

NoCode == T("No ")
GitHubOpen == T("[GitHub](")
WebsiteOpen == T("[Website](")
CellClose == T(") ")
TitleOpen == T("[")
TitleToLink == T("](")
LinkedTitleEnd == T(") | ")
PlainTitleEnd == T(" | ")
LastCell == T("|\n")

\* the code cell of a row
CodeCellOf(entry) ==
    IF ~Has(entry, "code") \/ Contains(entry["code"], T("No")) THEN NoCode
    ELSE IF Contains(entry["code"], T("github"))
    THEN GitHubOpen \o entry["code"] \o CellClose
    ELSE WebsiteOpen \o entry["code"] \o CellClose

\* the row of an entry that has a title
RowOf(entry) ==
    Pipe
    \o (IF Has(entry, "link")
        THEN TitleOpen \o entry["title"] \o TitleToLink \o entry["link"] \o LinkedTitleEnd
        ELSE entry["title"] \o PlainTitleEnd)
    \o CodeCellOf(entry)
    \o LastCell

HasTitle(entry) == Has(entry, "title")

\* C5: generate_list_articles returns the rows of the entries that have a
\* title, one each and in the order of the entries, and nothing for an entry
\* without title; a row is "| ", the title (as "[title](link)" when there is
\* a link) and " | ", the code cell -- "No " without code or with "No" in
\* it, else "[GitHub](code) " with "github" in it, else "[Website](code) "
\* -- and "|\n".
C5_RowsOfTitledEntries ==
    Called("generate_list_articles") =>
        LET titled == SelectSeq(bib, HasTitle)
        IN ret = Concat([i \in DOMAIN titled |-> RowOf(titled[i])])

\* C5 witness: the articles of entries among which one has no title, one
\* has a link, and one has a code value holding both "No" and "github"
C5_Witness ==
    /\ Called("generate_list_articles")
    /\ \E i \in DOMAIN bib : ~HasTitle(bib[i])
    /\ \E i \in DOMAIN bib : HasTitle(bib[i]) /\ Has(bib[i], "link")
    /\ \E i \in DOMAIN bib :
          /\ HasTitle(bib[i]) /\ Has(bib[i], "code")
          /\ Contains(bib[i]["code"], T("No"))
          /\ Contains(bib[i]["code"], T("github"))

\* the values the entries of b give for a field: the pieces of each value
\* cut at the separator, of the entries that have the field
ValuesOf(b, field, sep) ==
    UNION {Range(Split(b[i][field], sep)) : i \in {j \in DOMAIN b : Has(b[j], field)}}

\* the values of U from the smallest to the greatest
Ranked(U) ==
    [i \in 1..Cardinality(U) |->
        CHOOSE u \in U : Cardinality({v \in U : StrLess(v, u)}) = i - 1]

StrictlyIncreasing(values) ==
    \A i, j \in DOMAIN values : i < j => StrLess(values[i], values[j])

ListingOf(field, U) ==
    T("# List of ") \o NameText[field] \o T("s\n\n")
    \o T("Please refer to the list of useful acronyms used in deep learning and music: [acronyms.md](acronyms.md).\n\n")
    \o Bullets(Ranked(U))

\* C6: for a field name it accepts, get_field writes to <field>s.md, after
\* the title and the cross-reference line, one bullet for each distinct
\* piece that cutting the values of the field at " & " gives, every piece
\* as it is (no trimming, no case folding), in strictly increasing order,
\* and returns their number; an entry without the field gives nothing.
C6_ListingSortedUnique ==
    Called("get_field") /\ err = "none" =>
        /\ files[call.arg \o "s.md"] =
               ListingOf(call.arg, ValuesOf(bib, call.arg, T(" & ")))
        /\ StrictlyIncreasing(Ranked(ValuesOf(bib, call.arg, T(" & "))))
        /\ ret = Cardinality(ValuesOf(bib, call.arg, T(" & ")))

\* C6 witness: the listing of a field that one entry lacks, whose values
\* repeat across entries and differ only in case or in a trailing space
C6_Witness ==
    /\ Called("get_field") /\ err = "none" /\ call.arg = "task"
    /\ \E i \in DOMAIN bib : ~Has(bib[i], "task")
    /\ {T("a"), T("a "), T("b"), T("B")} \subseteq ValuesOf(bib, "task", T(" & "))
    /\ ret < Len(get_field_values(bib, "task"))

\* the ten names of the specification
SpecWhitelist ==
    {"task", "dataset", "architecture", "author", "dataaugmentation",
     "link", "title", "year", "journal", "entryType"}

\* C7, as claimed: validate_field, and get_field before anything else,
\* accept exactly the ten names task, dataset, architecture, author,
\* dataaugmentation, link, title, year, journal, entryType.
C7_WhitelistOfTheSpec ==
    Called("validate_field") \/ Called("get_field") =>
        (err = "none" <=> call.arg \in SpecWhitelist)

\* the ten names of the list `fields`
CodeWhitelist ==
    {"task", "dataset", "architecture", "author", "dataaugmentation",
     "link", "title", "year", "journal", "ENTRYTYPE"}

\* C7, amended: the tenth name accepted is ENTRYTYPE, not entryType; every
\* other string is rejected with an AssertionError, and get_field then has
\* written no file and returned nothing.
C7_WhitelistOfTheCode ==
    Called("validate_field") \/ Called("get_field") =>
        /\ err = "none" <=> call.arg \in CodeWhitelist
        /\ err # "none" =>
              /\ err = "AssertionError"
              /\ log = <<>>
              /\ DOMAIN files = {"README.md"}
              /\ files["README.md"] = before

\* C7 witness: get_field was called with entryType on a bibliography whose
\* entries all have ENTRYTYPE, and raised
C7_Witness ==
    /\ Called("get_field")
    /\ call.arg = "entryType"
    /\ err = "AssertionError"
    /\ bib # <<>>

RECURSIVE Sum(_)
Sum(ns) == IF ns = <<>> THEN 0 ELSE Head(ns) + Sum(Tail(ns))

\* C8: on a non-empty bibliography whose entries all have a year,
\* articles_per_year hands plt.hist the edges min, min + 1, ..., max + 1,
\* and the count of the bin that starts at y is the number of entries of
\* year y, for every y from min to max; the counts add up to the number of
\* entries.
C8_UnitBinsCountYears ==
    Called("articles_per_year") /\ bib # <<>> /\ (\A i \in DOMAIN bib : Has(bib[i], "year")) =>
        LET year == [i \in DOMAIN bib |-> int(bib[i]["year"])]
            lo == MinOf(Range(year))
            hi == MaxOf(Range(year))
        IN /\ err = "none"
           /\ ret.bins = [i \in 1..(hi - lo + 2) |-> lo + i - 1]
           /\ DOMAIN ret.counts = 1..(hi - lo + 1)
           /\ \A y \in lo..hi :
                 ret.counts[y - lo + 1] = Cardinality({i \in DOMAIN bib : year[i] = y})
           /\ Sum(ret.counts) = Len(bib)

\* C8 witness: the histogram of the years 2015, 2015, 2017
C8_Witness ==
    /\ Called("articles_per_year") /\ err = "none"
    /\ ret.bins = <<2015, 2016, 2017, 2018>>
    /\ ret.counts = <<2, 0, 1>>

\* C9: on a bibliography whose entries all have an author, get_authors
\* returns the number of distinct pieces that cutting every author value at
\* " and " gives, and writes to authors.md, after the title, one bullet for
\* each of them, in increasing order.
C9_AuthorsSortedUnique ==
    Called("get_authors") /\ (\A i \in DOMAIN bib : Has(bib[i], "author")) =>
        /\ err = "none"
        /\ ret = Cardinality(ValuesOf(bib, "author", T(" and ")))
        /\ files["authors.md"] =
               T("# List of authors\n\n")
               \o Bullets(Ranked(ValuesOf(bib, "author", T(" and "))))

\* C9 witness: the authors of entries where an author comes twice in one
\* entry and again in another
C9_Witness ==
    /\ Called("get_authors") /\ err = "none"
    /\ \E i \in DOMAIN bib :
          Len(Split(bib[i]["author"], T(" and "))) >
              Cardinality(Range(Split(bib[i]["author"], T(" and "))))
    /\ \E i, j \in DOMAIN bib :
          /\ i # j
          /\ Range(Split(bib[i]["author"], T(" and ")))
                \cap Range(Split(bib[j]["author"], T(" and "))) # {}
          /\ bib[i] # bib[j]
    /\ ret = 2

====
